---- MODULE Spec2Model ----
(***************************************************************************)
(* Model of the three client.rs patching scripts of openai-ergonomic:      *)
(*   refactor_client_complete.py  (line scanner, refactor())               *)
(*   fix_client.py                (regular-expression substitutions)       *)
(*   remove_interceptors.py       (regular-expression substitutions)       *)
(*                                                                         *)
(* A text is the sequence of its characters, each a string: an ASCII       *)
(* character is the one-character string (Chars turns a string literal     *)
(* into the sequence), a control character that a string literal cannot    *)
(* hold is its Python escape, e.g. "\\x0b", and a character above U+007F   *)
(* is the escapes of its UTF-8 bytes one after the other, e.g.             *)
(* "\\xc3\\xa9" for U+00E9 (Utf8 gives it from the code point).  The file  *)
(* on disk is the sequence of its bytes: a byte below 0x80 is the ASCII    *)
(* character, a byte from 0x80 on is its Python escape.  A line, as        *)
(* readlines() gives it, ends with "\n" (the last one may not).            *)
(***************************************************************************)
EXTENDS Integers, Sequences, FiniteSets, TLC

VARIABLES
    file,     \* bytes of src/client.rs on disk
    orig,     \* history: bytes of src/client.rs before the first run
    script,   \* the script that is running
    pc,       \* position in the script
    lines,    \* refactor(): f.readlines()
    output,   \* refactor(): the output list
    content,  \* fix_client(), remove_interceptors(): the text being rewritten
    i,        \* refactor(): scan index, 0-based as in the code
    applied,  \* audit trail: <<rule, start, next>> per rule application
    origin,   \* per output line: 1-based input index it copies, 0 if inserted
    run,      \* number of the current run of the script on the file
    first     \* history: bytes of src/client.rs after the first run

vars == <<file, orig, script, pc, lines, output, content, i, applied, origin, run,
          first>>

----------------------------------------------------------------------------
(* Text: characters, blanks, Python's str methods over sequences.         *)

\* the characters of a string literal
Chars(str) == [k \in 1..Len(str) |-> SubSeq(str, k, k)]

SP   == " "
NL   == "\n"
TAB  == "\t"
CR   == "\r"
FF   == "\f"
VT   == "\\x0b"
IND  == Chars("    ")

\* the bytes 0x80 to 0xFF in order
HighByteSeq ==
    <<"\\x80", "\\x81", "\\x82", "\\x83", "\\x84", "\\x85", "\\x86", "\\x87",
      "\\x88", "\\x89", "\\x8a", "\\x8b", "\\x8c", "\\x8d", "\\x8e", "\\x8f",
      "\\x90", "\\x91", "\\x92", "\\x93", "\\x94", "\\x95", "\\x96", "\\x97",
      "\\x98", "\\x99", "\\x9a", "\\x9b", "\\x9c", "\\x9d", "\\x9e", "\\x9f",
      "\\xa0", "\\xa1", "\\xa2", "\\xa3", "\\xa4", "\\xa5", "\\xa6", "\\xa7",
      "\\xa8", "\\xa9", "\\xaa", "\\xab", "\\xac", "\\xad", "\\xae", "\\xaf",
      "\\xb0", "\\xb1", "\\xb2", "\\xb3", "\\xb4", "\\xb5", "\\xb6", "\\xb7",
      "\\xb8", "\\xb9", "\\xba", "\\xbb", "\\xbc", "\\xbd", "\\xbe", "\\xbf",
      "\\xc0", "\\xc1", "\\xc2", "\\xc3", "\\xc4", "\\xc5", "\\xc6", "\\xc7",
      "\\xc8", "\\xc9", "\\xca", "\\xcb", "\\xcc", "\\xcd", "\\xce", "\\xcf",
      "\\xd0", "\\xd1", "\\xd2", "\\xd3", "\\xd4", "\\xd5", "\\xd6", "\\xd7",
      "\\xd8", "\\xd9", "\\xda", "\\xdb", "\\xdc", "\\xdd", "\\xde", "\\xdf",
      "\\xe0", "\\xe1", "\\xe2", "\\xe3", "\\xe4", "\\xe5", "\\xe6", "\\xe7",
      "\\xe8", "\\xe9", "\\xea", "\\xeb", "\\xec", "\\xed", "\\xee", "\\xef",
      "\\xf0", "\\xf1", "\\xf2", "\\xf3", "\\xf4", "\\xf5", "\\xf6", "\\xf7",
      "\\xf8", "\\xf9", "\\xfa", "\\xfb", "\\xfc", "\\xfd", "\\xfe", "\\xff">>

HighBytes == {HighByteSeq[k] : k \in 1..128}

\* the byte of a number from 128 to 255, and the number of a byte from 0x80 on
Byte(n) == HighByteSeq[n - 127]
Code(b) == 127 + CHOOSE k \in 1..128 : HighByteSeq[k] = b

\* the character of a code point above U+007F
Utf8(cp) ==
    IF cp < 2048 THEN Byte(192 + (cp \div 64)) \o Byte(128 + (cp % 64))
    ELSE IF cp < 65536
         THEN Byte(224 + (cp \div 4096)) \o Byte(128 + ((cp \div 64) % 64))
                  \o Byte(128 + (cp % 64))
         ELSE Byte(240 + (cp \div 262144)) \o Byte(128 + ((cp \div 4096) % 64))
                  \o Byte(128 + ((cp \div 64) % 64)) \o Byte(128 + (cp % 64))

\* the bytes of a character
EncodeChar(c) ==
    IF Len(c) <= 4 THEN <<c>>
    ELSE [j \in 1..(Len(c) \div 4) |-> SubSeq(c, 4 * j - 3, 4 * j)]

\* the code point of a character above U+007F
CodePoint(c) ==
    LET b == [j \in 1..(Len(c) \div 4) |-> Code(EncodeChar(c)[j])]
    IN  CASE Len(b) = 2 -> (b[1] - 192) * 64 + (b[2] - 128)
          [] Len(b) = 3 -> (b[1] - 224) * 4096 + (b[2] - 128) * 64 + (b[3] - 128)
          [] Len(b) = 4 -> (b[1] - 240) * 262144 + (b[2] - 128) * 4096
                               + (b[3] - 128) * 64 + (b[4] - 128)

NBSP == Utf8(160)

\* the other characters of str.isspace()
OtherBlanks ==
    {VT, "\\x1c", "\\x1d", "\\x1e", "\\x1f"}
        \cup {Utf8(cp) : cp \in {133, 160, 5760} \cup (8192..8202)
                                   \cup {8232, 8233, 8239, 8287, 12288}}

\* whitespace, as str.strip() and \s see it
IsBlank(c) == c \in {SP, NL, TAB, CR, FF} \cup OtherBlanks

\* pat in line
Contains(line, pat) ==
    \E k \in {j \in 0..(Len(line) - Len(pat)) : line[j + 1] = pat[1]} :
        SubSeq(line, k + 1, k + Len(pat)) = pat

\* number of leading blanks
RECURSIVE LeadBlanks(_)
LeadBlanks(s) ==
    IF s # <<>> /\ IsBlank(Head(s)) THEN 1 + LeadBlanks(Tail(s)) ELSE 0

\* number of trailing blanks
RECURSIVE TrailBlanks(_)
TrailBlanks(s) ==
    IF s # <<>> /\ IsBlank(s[Len(s)])
    THEN 1 + TrailBlanks(SubSeq(s, 1, Len(s) - 1))
    ELSE 0

\* s.lstrip(), s.rstrip(), s.strip()
LStrip(s) == SubSeq(s, LeadBlanks(s) + 1, Len(s))
RStrip(s) == SubSeq(s, 1, Len(s) - TrailBlanks(s))
Strip(s)  == RStrip(LStrip(s))

\* s.startswith(pat), s.endswith(pat)
StartsWith(s, pat) == Len(s) >= Len(pat) /\ SubSeq(s, 1, Len(pat)) = pat
EndsWith(s, pat) ==
    Len(s) >= Len(pat) /\ SubSeq(s, Len(s) - Len(pat) + 1, Len(s)) = pat

\* s.count(c) for a one-character c
Count(s, c) == Cardinality({k \in 1..Len(s) : s[k] = c})

\* ' ' * n
Blanks(n) == [k \in 1..n |-> SP]

Greatest(S) == CHOOSE x \in S : \A y \in S : y <= x
Smallest(S) == CHOOSE x \in S : \A y \in S : x <= y

\* the n-th smallest member of a set of positions
Nth(S, n) == CHOOSE e \in S : Cardinality({x \in S : x <= e}) = n

\* universal newlines, from pos on: "\r\n" and a lone "\r" become "\n"
RECURSIVE TranslateFrom(_, _)
TranslateFrom(text, pos) ==
    LET returns == {k \in pos..Len(text) : text[k] = CR}
    IN  IF returns = {} THEN SubSeq(text, pos, Len(text))
        ELSE LET k == Smallest(returns)
             IN  SubSeq(text, pos, k - 1) \o <<NL>>
                     \o TranslateFrom(text, IF k < Len(text) /\ text[k + 1] = NL
                                            THEN k + 2 ELSE k + 1)

\* what a file opened with open(path, 'r') gives for the text on disk;
\* "\n" is written as it is
Translate(text) == TranslateFrom(text, 1)

\* the positions at which a line of the text ends: every "\n", and the last
\* character when the text does not end with one
LineEnds(text) ==
    {k \in 1..Len(text) : text[k] = NL \/ k = Len(text)}

\* the text cut after every "\n"
SplitLines(text) ==
    [n \in 1..Cardinality(LineEnds(text)) |->
        LET last == Nth(LineEnds(text), n)
            before == {x \in LineEnds(text) : x < last}
            start == IF before = {} THEN 1
                     ELSE 1 + CHOOSE x \in before : \A y \in before : y <= x
        IN  SubSeq(text, start, last)]

\* the lines of a text as a file opened for reading gives them
LinesOf(text) == CHOOSE ls \in {SplitLines(read) : read \in {Translate(text)}} : TRUE

\* f.writelines(ls): the lines one after the other
RECURSIVE Concat(_, _)
Concat(ls, n) == IF n = 0 THEN <<>> ELSE Concat(ls, n - 1) \o ls[n]

WriteLinesOf(ls) == Concat(ls, Len(ls))

\* lines[k] with the code's 0-based index
At(ls, k) == ls[k + 1]

----------------------------------------------------------------------------
(* The file: open() in text mode reads and writes UTF-8.                   *)

\* the bytes of the text up to and with its n-th character of more than one
\* byte; high is the set of the positions of these characters
RECURSIVE EncodeUpTo(_, _, _)
EncodeUpTo(text, high, n) ==
    IF n = 0 THEN <<>>
    ELSE EncodeUpTo(text, high, n - 1)
             \o SubSeq(text, (IF n = 1 THEN 1 ELSE Nth(high, n - 1) + 1),
                       Nth(high, n) - 1)
             \o EncodeChar(text[Nth(high, n)])

\* f.write(text): the bytes of the text
Encode(text) ==
    CHOOSE bytes \in
        {EncodeUpTo(a.text, a.high, Cardinality(a.high))
             \o SubSeq(a.text, (IF a.high = {} THEN 1 ELSE Greatest(a.high) + 1),
                       Len(a.text)) :
           a \in {[text |-> t, high |-> {k \in 1..Len(t) : Len(t[k]) > 4}] :
                     t \in {text}}} : TRUE

\* the number of bytes of the character that starts with the byte from 0x80
\* on at k, 0 when the bytes at k are not UTF-8
CharLen(bytes, k) ==
    LET lead == Code(bytes[k])
        \* the j-th byte after k is there and in lo..hi
        Cont(j, lo, hi) ==
            /\ k + j <= Len(bytes)
            /\ bytes[k + j] \in HighBytes
            /\ Code(bytes[k + j]) \in lo..hi
        Two(lo, hi)   == IF Cont(1, lo, hi) THEN 2 ELSE 0
        Three(lo, hi) == IF Cont(1, lo, hi) /\ Cont(2, 128, 191) THEN 3 ELSE 0
        Four(lo, hi)  ==
            IF Cont(1, lo, hi) /\ Cont(2, 128, 191) /\ Cont(3, 128, 191) THEN 4 ELSE 0
    IN  CASE lead \in 194..223 -> Two(128, 191)
          [] lead = 224 -> Three(160, 191)
          [] lead \in (225..236) \cup {238, 239} -> Three(128, 191)
          [] lead = 237 -> Three(128, 159)
          [] lead = 240 -> Four(144, 191)
          [] lead \in 241..243 -> Four(128, 191)
          [] lead = 244 -> Four(128, 143)
          [] OTHER -> 0

\* the character of the bytes that start at k
CharAt(bytes, k) ==
    CASE CharLen(bytes, k) = 2 -> bytes[k] \o bytes[k + 1]
      [] CharLen(bytes, k) = 3 -> bytes[k] \o bytes[k + 1] \o bytes[k + 2]
      [] CharLen(bytes, k) = 4 -> bytes[k] \o bytes[k + 1] \o bytes[k + 2] \o bytes[k + 3]

\* the positions at which the characters of more than one byte start
Starts(bytes) ==
    {k \in 1..Len(bytes) : bytes[k] \in HighBytes /\ CharLen(bytes, k) > 0}

\* the text of the bytes up to and with the n-th character of more than one
\* byte; starts is the set of the positions at which these characters start
RECURSIVE DecodeUpTo(_, _, _)
DecodeUpTo(bytes, starts, n) ==
    IF n = 0 THEN <<>>
    ELSE DecodeUpTo(bytes, starts, n - 1)
             \o SubSeq(bytes,
                       (IF n = 1 THEN 1
                        ELSE Nth(starts, n - 1) + CharLen(bytes, Nth(starts, n - 1))),
                       Nth(starts, n) - 1)
             \o <<CharAt(bytes, Nth(starts, n))>>

\* f.read(): the text of the bytes of a file that is UTF-8
Decode(bytes) ==
    CHOOSE text \in
        {DecodeUpTo(a.bytes, a.starts, Cardinality(a.starts))
             \o SubSeq(a.bytes,
                       (IF a.starts = {} THEN 1
                        ELSE Greatest(a.starts) + CharLen(a.bytes, Greatest(a.starts))),
                       Len(a.bytes)) :
           a \in {[bytes |-> b, starts |-> Starts(b)] : b \in {bytes}}} : TRUE

\* f.read() does not raise UnicodeDecodeError: every byte from 0x80 on is a
\* byte of a character
Decodable(bytes) ==
    \E a \in {[bytes |-> b, starts |-> Starts(b)] : b \in {bytes}} :
        \A k \in 1..Len(a.bytes) :
            a.bytes[k] \in HighBytes =>
                \E j \in a.starts : j <= k /\ k < j + CharLen(a.bytes, j)

\* f.readlines() of a file opened for reading
ReadLinesOf(bytes) == CHOOSE ls \in {LinesOf(text) : text \in {Decode(bytes)}} : TRUE

----------------------------------------------------------------------------
(* The patterns refactor() looks for, as the code writes them.             *)

P_Comment        == Chars("//")
P_UseInterceptor == Chars("use crate::interceptor")
P_TooManyArgs    == Chars("clippy::too_many_arguments")
P_AllowThisLint  == Chars("Allow this lint")
P_UseRwLock      == Chars("use tokio::sync::RwLock")
P_HelperMacro    == Chars("// Helper macro to generate")
P_MacroInvoke    == Chars("impl_interceptor_helpers!")
P_Field          == Chars("    interceptors: Arc<RwLock<InterceptorChain>>,")
P_Since          == Chars("since InterceptorChain")
P_DebugField     == Chars(".field(\"interceptors\"")
P_InitField      == Chars("            interceptors: Arc::new")
P_AddInterceptor == Chars("    /// Add an interceptor")
P_Accessor       == Chars("pub(crate) fn interceptors")
P_HelperMethods  == Chars("// Interceptor helper methods")
P_MetaMut        == Chars("        let mut metadata = HashMap::new();")
P_Meta           == Chars("        let metadata = HashMap::new();")
P_BeforeRequest  == Chars("        self.call_before_request")
P_HandleApiError == Chars(".handle_api_error(")
P_AfterResponse  == Chars("        self.call_after_response")
P_AwaitQ         == Chars(".await?")
P_AwaitSemi      == Chars(".await;")
P_Close          == Chars("}")
P_Semi           == Chars(";")

\* the text the two replacing rules insert
T_CustomDebug    == Chars("// Custom Debug implementation\n")
T_MapApiError    == Chars("map_api_error(e)")

----------------------------------------------------------------------------
(* Lines of a client.rs: one or more for every rule, and the lines that    *)
(* end, nest in or surround the constructs.                                *)

L_UseInterceptor == P_UseInterceptor \o Chars("::{InterceptorChain};\n")
L_AllowComment   == Chars("// ") \o P_AllowThisLint \o Chars(" at module level\n")
L_AllowAttr      == Chars("#![allow(") \o P_TooManyArgs \o Chars(")]\n")
L_UseRwLock      == P_UseRwLock \o Chars(";\n")
L_HelperMacro    == P_HelperMacro \o Chars(" interceptor helper methods\n")
L_MacroRules     == Chars("macro_rules! impl_interceptor_helpers {\n")
L_MacroInvoke    == P_MacroInvoke \o Chars("(Client);\n")
L_Field          == P_Field \o Chars("\n")
L_DebugComment   == Chars("// Custom Debug implementation ") \o P_Since
                        \o Chars(" doesn't implement Debug\n")
L_DebugField     == IND \o IND \o IND \o P_DebugField
                        \o Chars(", &\"<InterceptorChain>\")\n")
L_InitField      == P_InitField
                        \o Chars("(RwLock::new(InterceptorChain::new())),\n")
L_AddInterceptor == P_AddInterceptor \o Chars(" to the client.\n")
L_WithFn         == Chars("    pub fn with_interceptor(self) {\n")
L_GetDoc         == Chars("    /// Get a reference to the interceptor chain.\n")
L_Accessor       == IND \o P_Accessor \o Chars("(&self) {\n")
L_HelperMethods  == P_HelperMethods \o Chars("\n")
L_ImplClient     == Chars("impl Client {\n")
L_MetaMut        == P_MetaMut \o Chars("\n")
L_Meta           == P_Meta \o Chars("\n")
L_Before         == P_BeforeRequest \o Chars("(x)") \o P_AwaitQ \o Chars(";\n")
L_BeforeOpen     == P_BeforeRequest \o Chars("(x)\n")
L_AwaitQ         == IND \o IND \o IND \o P_AwaitQ \o Chars(";\n")
L_After          == P_AfterResponse \o Chars("(z)") \o P_AwaitSemi \o Chars("\n")
L_AfterOpen      == P_AfterResponse \o Chars("(z)\n")
L_Await          == IND \o IND \o IND \o P_AwaitSemi \o Chars("\n")
L_ErrArm         == Chars("            Err(e) => self")
                        \o P_HandleApiError \o Chars("e, y),\n")
L_Close0         == Chars("}\n")
L_Close4         == Chars("    }\n")
L_Close8         == Chars("        }\n")
L_CloseNote      == Chars("} // end impl\n")
L_Doc            == Chars("    /// Send a request.\n")
L_UseLib         == Chars("use lib::{A, B};\n")
L_Fn             == Chars("    fn f() {\n")
L_Let            == Chars("        let r = g();\n")
L_Match          == Chars("        match r {\n")
L_OkArm          == Chars("            Ok(v) => v,\n")
L_Result         == Chars("        r\n")
L_Empty          == Chars("\n")

\* lines indented one or two blanks deeper than the patterns expect, a call
\* whose argument is blank, a use of metadata with no blank after it, and an
\* import of another module whose name starts like the one looked for
L_UseOther       == Chars("use crate::interceptors;\n")
L_Before9        == Chars(" ") \o L_Before
L_After10        == Chars("  ") \o L_After
L_Field5         == Chars(" ") \o L_Field
L_ErrBlankArg    == Chars("        r = self") \o P_HandleApiError
                        \o Chars("e,    );\n")
L_MetaArg        == Chars("        g(metadata&self);\n")

\* lines indented with tabs, lines that end with "\r\n", a "\r" inside a
\* line, lines with other blank characters, and lines in which a word goes
\* on before or after a pattern
L_TabClose       == Chars("\t}\n")
L_TabErrArm      == Chars("\t\tErr(e) => self") \o P_HandleApiError \o Chars("e, y),\n")
L_FnCR           == Chars("    fn f() {\r\n")
L_BeforeCR       == P_BeforeRequest \o Chars("(x)") \o P_AwaitQ \o Chars(";\r\n")
L_LetCR          == Chars("        let r = g();\r\n")
L_Close4CR       == Chars("    }\r\n")
L_LoneCR         == Chars("a\rb\n")
L_VtClose        == <<VT>> \o Chars("}") \o <<NBSP>> \o Chars("\n")
L_NbspCall       == <<NBSP>> \o Chars("self") \o P_HandleApiError \o Chars("e,")
                        \o <<NBSP>> \o Chars("y);\n")
L_UseGuard       == P_UseRwLock \o Chars("ReadGuard;\n")
L_Reuse          == Chars("re") \o P_UseInterceptor \o Chars("::{A};\n")
L_AccessorMut    == IND \o P_Accessor \o Chars("_mut(&self) {\n")
L_Linter         == Chars("// ") \o P_AllowThisLint \o Chars("er\n")
L_MyMacro        == Chars("my_") \o P_MacroInvoke \o Chars("(Client);\n")
L_Debugging      == Chars("// Custom Debug implementation ") \o P_Since
                        \o Chars(" doesn't implement Debugging\n")
L_Myself         == Chars("        r = myself") \o P_HandleApiError \o Chars("e, y);\n")
L_MetaPipe       == Chars("    .map(|metadata| x)\n")
L_MetaStar       == Chars("    f(*metadata);\n")
L_MetaDash       == Chars("    a-metadata-b\n")
L_MetaDigit      == Chars("        g(&mut metadata2, &metadata3);\n")
L_MetaUnder      == Chars("        g(&mut metadata_x, &metadata_y);\n")

\* metadata next to a letter, a number and a sign above U+007F
L_MetaAccent     == Chars("        g(") \o <<Utf8(233)>> \o Chars("metadata, metadata")
                        \o <<Utf8(178)>> \o Chars(", ") \o <<Utf8(215)>>
                        \o Chars("metadata);\n")

\* characters of two, three and four bytes: a letter (U+0100), a dash
\* (U+2014), a byte order mark (U+FEFF), a check mark (U+2705), an emoji
\* (U+1F600)
L_MetaWide       == Chars("        g(metadata") \o <<Utf8(256)>> \o Chars(", ")
                        \o <<Utf8(8212)>> \o Chars("metadata") \o <<Utf8(128512)>>
                        \o Chars(");\n")
L_Dash           == Chars("// a ") \o <<Utf8(8212)>> \o Chars(" b\n")
L_Check          == Chars("    println!(\"") \o <<Utf8(9989)>> \o Chars(" done\");\n")
L_BomUse         == <<Utf8(65279)>> \o P_UseInterceptor \o Chars("::X;\n")

----------------------------------------------------------------------------
(* refactor(): the tests of the if-chain, in the order of the code.        *)

IsUseInterceptor(line) == Contains(line, P_UseInterceptor)

IsTooManyArgs(ls, k) ==
    \/ Contains(At(ls, k), P_TooManyArgs)
    \/ (k > 0 /\ Contains(At(ls, k - 1), P_AllowThisLint))

IsUseRwLock(line)      == Contains(line, P_UseRwLock)
IsHelperMacro(line)    == Contains(line, P_HelperMacro)
IsMacroInvoke(line)    == Contains(line, P_MacroInvoke)
IsField(line)          == Contains(line, P_Field)
IsSince(line)          == Contains(line, P_Since)
IsDebugField(line)     == Contains(line, P_DebugField)
IsInitField(line)      == Contains(line, P_InitField)
IsAddInterceptor(line) == Contains(line, P_AddInterceptor)
IsAccessor(line)       == Contains(line, P_Accessor)
IsHelperMethods(line)  == Contains(line, P_HelperMethods)
IsMetadata(line)       == Contains(line, P_MetaMut) \/ Contains(line, P_Meta)
IsBeforeRequest(line)  == Contains(line, P_BeforeRequest)
IsHandleApiError(line) == Contains(line, P_HandleApiError)
IsAfterResponse(line)  == Contains(line, P_AfterResponse)

\* the branch of the if-chain that lines[k] takes
Rule(ls, k) ==
    LET line == At(ls, k) IN
    IF IsUseInterceptor(line)      THEN "use_interceptor"
    ELSE IF IsTooManyArgs(ls, k)   THEN "too_many_arguments"
    ELSE IF IsUseRwLock(line)      THEN "use_rwlock"
    ELSE IF IsHelperMacro(line)    THEN "macro_definition"
    ELSE IF IsMacroInvoke(line)    THEN "macro_invocation"
    ELSE IF IsField(line)          THEN "struct_field"
    ELSE IF IsSince(line)          THEN "debug_comment"
    ELSE IF IsDebugField(line)     THEN "debug_field"
    ELSE IF IsInitField(line)      THEN "init_field"
    ELSE IF IsAddInterceptor(line) THEN "with_interceptor"
    ELSE IF IsAccessor(line)       THEN "interceptors_accessor"
    ELSE IF IsHelperMethods(line)  THEN "helper_methods"
    ELSE IF IsMetadata(line)       THEN "metadata"
    ELSE IF IsBeforeRequest(line)  THEN "call_before_request"
    ELSE IF IsHandleApiError(line) THEN "handle_api_error"
    ELSE IF IsAfterResponse(line)  THEN "call_after_response"
    ELSE "keep"

\* the branches that are `i += 1; continue`
SingleLineRules ==
    {"use_interceptor", "too_many_arguments", "use_rwlock", "macro_invocation",
     "struct_field", "debug_field", "init_field", "metadata"}

----------------------------------------------------------------------------
(* refactor(): the inner loops.  Each operator gives the value of i with   *)
(* which the branch reaches its `continue`.                                *)

\* while i < len(lines) and not (lines[i].strip() == '}'
\*        and i + 1 < len(lines) and lines[i+1].strip() == '}'): i += 1
RECURSIVE MacroLoop(_, _)
MacroLoop(ls, k) ==
    IF k < Len(ls)
       /\ ~(Strip(At(ls, k)) = P_Close
            /\ k + 1 < Len(ls) /\ Strip(At(ls, k + 1)) = P_Close)
    THEN MacroLoop(ls, k + 1)
    ELSE k

MacroNext(ls, k) == MacroLoop(ls, k) + 2

\* while i < len(lines) and not (lines[i].strip() == '}'
\*        and (i + 1 >= len(lines) or not lines[i+1].strip().startswith('//'))): i += 1
RECURSIVE WithInterceptorLoop(_, _)
WithInterceptorLoop(ls, k) ==
    IF k < Len(ls)
       /\ ~(Strip(At(ls, k)) = P_Close
            /\ (k + 1 >= Len(ls) \/ ~StartsWith(Strip(At(ls, k + 1)), P_Comment)))
    THEN WithInterceptorLoop(ls, k + 1)
    ELSE k

WithInterceptorNext(ls, k) == WithInterceptorLoop(ls, k) + 1

\* while i < len(lines) and lines[i].strip() != '}': i += 1
RECURSIVE AccessorLoop(_, _)
AccessorLoop(ls, k) ==
    IF k < Len(ls) /\ Strip(At(ls, k)) # P_Close
    THEN AccessorLoop(ls, k + 1)
    ELSE k

\* i += 1; if i < len(lines) and lines[i].strip() == '}': i += 1
AccessorNext(ls, k) ==
    LET j == AccessorLoop(ls, k) + 1 IN
    IF j < Len(ls) /\ Strip(At(ls, j)) = P_Close THEN j + 1 ELSE j

\* brace_count after the lines from..k have been counted:
\* brace_count += lines[i].count('{'); brace_count -= lines[i].count('}')
RECURSIVE BraceCount(_, _, _)
BraceCount(ls, from, k) ==
    IF k < from THEN 0
    ELSE BraceCount(ls, from, k - 1) + Count(At(ls, k), "{") - Count(At(ls, k), "}")

\* while i < len(lines): count; i += 1;
\*     if brace_count == 0 and lines[i-1].strip() == '}': break
RECURSIVE HelperMethodsLoop(_, _, _)
HelperMethodsLoop(ls, from, k) ==
    IF k < Len(ls)
    THEN IF BraceCount(ls, from, k) = 0 /\ Strip(At(ls, k)) = P_Close
         THEN k + 1
         ELSE HelperMethodsLoop(ls, from, k + 1)
    ELSE k

\* i += 1; brace_count = 0; the loop
HelperMethodsNext(ls, k) == HelperMethodsLoop(ls, k + 1, k + 1)

\* while i < len(lines): if '.await?' in lines[i]: i += 1; break
\*     i += 1
RECURSIVE BeforeRequestLoop(_, _)
BeforeRequestLoop(ls, k) ==
    IF k < Len(ls)
    THEN IF Contains(At(ls, k), P_AwaitQ) THEN k + 1
         ELSE BeforeRequestLoop(ls, k + 1)
    ELSE k

\* a slip: the search for '.await?' starts at the top of the file
BeforeRequestNext_FromTop(ls, k) == BeforeRequestLoop(ls, 0)

BeforeRequestNext(ls, k) == BeforeRequestLoop(ls, k)

\* stmt when the index is k: stmt = line, and stmt += lines[i] for every i up to k
RECURSIVE Stmt(_, _, _)
Stmt(ls, from, k) ==
    IF k < from THEN <<>> ELSE Stmt(ls, from, k - 1) \o At(ls, k)

\* while i < len(lines) and not stmt.rstrip().endswith(';'):
\*     i += 1; if i < len(lines): stmt += lines[i]
RECURSIVE HandleApiErrorLoop(_, _, _)
HandleApiErrorLoop(ls, from, k) ==
    IF k < Len(ls) /\ ~EndsWith(RStrip(Stmt(ls, from, k)), P_Semi)
    THEN HandleApiErrorLoop(ls, from, k + 1)
    ELSE k

\* stmt = line; the loop; i += 1
HandleApiErrorNext(ls, k) == HandleApiErrorLoop(ls, k, k) + 1

\* f"{' ' * (len(line) - len(line.lstrip()))}map_api_error(e)\n"
HandleApiErrorText(line) ==
    Blanks(LeadBlanks(line)) \o T_MapApiError \o Chars("\n")

\* while i < len(lines): if '.await;' in lines[i]: i += 1; break
\*     i += 1
RECURSIVE AfterResponseLoop(_, _)
AfterResponseLoop(ls, k) ==
    IF k < Len(ls)
    THEN IF Contains(At(ls, k), P_AwaitSemi) THEN k + 1
         ELSE AfterResponseLoop(ls, k + 1)
    ELSE k

\* a slip: with no '.await;' below, the index is left where it was
AfterResponseNext_Stay(ls, k) ==
    IF \E j \in k..(Len(ls) - 1) : Contains(At(ls, j), P_AwaitSemi)
    THEN AfterResponseLoop(ls, k)
    ELSE k

AfterResponseNext(ls, k) == AfterResponseLoop(ls, k)

----------------------------------------------------------------------------
(* Inputs: every short file over the lines above, every file a little      *)
(* longer over the lines that start, end or nest in a multi-line           *)
(* construct, and fragments of a client.rs.                                *)

MaxLen  == 2
MaxCore == 3
MaxRuns == 2

AllLines ==
    {L_UseInterceptor, L_AllowComment, L_AllowAttr, L_UseRwLock, L_HelperMacro,
     L_MacroRules, L_MacroInvoke, L_Field, L_DebugComment, L_DebugField,
     L_InitField, L_AddInterceptor, L_WithFn, L_GetDoc, L_Accessor,
     L_HelperMethods, L_ImplClient, L_MetaMut, L_Meta, L_Before, L_BeforeOpen,
     L_AwaitQ, L_After, L_AfterOpen, L_Await, L_ErrArm, L_Close0, L_Close4,
     L_Close8, L_CloseNote, L_Doc, L_UseLib, L_Fn, L_Let, L_Match, L_OkArm,
     L_Result, L_Empty}

CoreLines ==
    {L_AllowComment, L_HelperMacro, L_AddInterceptor, L_Accessor,
     L_HelperMethods, L_ImplClient, L_BeforeOpen, L_AwaitQ, L_AfterOpen,
     L_Await, L_ErrArm, L_DebugComment, L_Close4, L_CloseNote, L_Doc, L_Let}

\* the end-to-end scenario of the specification, with the names of the code
S_EndToEnd ==
    <<L_UseLib, L_Fn, L_Before, L_Let, L_Match, L_OkArm, L_ErrArm, L_Close8,
      L_After, L_Result, L_Close4>>

S_Lint == <<L_AllowComment, L_AllowAttr, L_Empty, L_UseLib, L_UseRwLock>>

S_Macro ==
    <<L_HelperMacro, L_MacroRules, L_Fn, L_Close4, L_Close0, L_MacroInvoke,
      L_ImplClient, L_Close0>>

S_Methods ==
    <<L_ImplClient, L_AddInterceptor, L_WithFn, L_Close4, L_Doc, L_Fn, L_Let,
      L_Close4, L_Close0>>

S_Accessor == <<L_ImplClient, L_GetDoc, L_Accessor, L_Close4, L_Close0>>

S_Helpers ==
    <<L_HelperMethods, L_ImplClient, L_Fn, L_Close4, L_CloseNote, L_ImplClient,
      L_Fn, L_Close4, L_Close0>>

S_Calls ==
    <<L_Fn, L_MetaMut, L_BeforeOpen, L_AwaitQ, L_Let, L_AfterOpen, L_Await,
      L_Result, L_Close4>>

S_Unterminated == <<L_Fn, L_BeforeOpen, L_Let, L_Result, L_Close4>>

S_Indent ==
    <<L_UseOther, L_Fn, L_Field5, L_Before9, L_ErrBlankArg, L_MetaArg, L_After10,
      L_Close4>>

S_Tabs ==
    <<L_ImplClient, L_AddInterceptor, L_Fn, L_TabErrArm, L_TabClose, L_NbspCall,
      L_VtClose, L_Close0>>

S_CarriageReturns ==
    <<L_FnCR, L_BeforeCR, L_LetCR, L_LoneCR, L_Close4CR>>

S_Glued ==
    <<L_UseGuard, L_Reuse, L_Linter, L_UseLib, L_MyMacro, L_Debugging,
      L_AccessorMut, L_Myself, L_Close4>>

S_Metadata ==
    <<L_Fn, L_MetaPipe, L_MetaStar, L_MetaDash, L_MetaDigit, L_MetaUnder,
      L_MetaAccent, L_MetaWide, L_Close4>>

S_Wide == <<L_BomUse, L_Dash, L_Fn, L_Check, L_Before, L_MetaWide, L_Close4>>

OddLines ==
    {L_UseOther, L_Before9, L_After10, L_Field5, L_ErrBlankArg, L_MetaArg,
     L_TabClose, L_TabErrArm, L_VtClose, L_NbspCall, L_FnCR, L_BeforeCR, L_LetCR,
     L_Close4CR, L_LoneCR,
     L_UseGuard, L_Reuse, L_AccessorMut, L_Linter, L_MyMacro, L_Debugging,
     L_Myself, L_MetaPipe, L_MetaStar, L_MetaDash, L_MetaDigit, L_MetaUnder,
     L_MetaAccent, L_MetaWide, L_Dash, L_Check, L_BomUse}

Scenarios ==
    {S_EndToEnd, S_Lint, S_Macro, S_Methods, S_Accessor, S_Helpers, S_Calls,
     S_Unterminated, S_Indent, S_Tabs, S_CarriageReturns, S_Glued, S_Metadata,
     S_Wide}
        \cup {<<a>> : a \in OddLines}

Files(alphabet, n) == UNION {[1..m -> alphabet] : m \in 0..n}

InputLines == Files(AllLines, MaxLen) \cup Files(CoreLines, MaxCore) \cup Scenarios

----------------------------------------------------------------------------
(* refactor()                                                              *)

\* src/client.rs as it is found, and refactor() about to run on it
Start(inputs) ==
    /\ \E ls \in inputs : file = Encode(WriteLinesOf(ls))
    /\ orig = file
    /\ script = "refactor"
    /\ pc = "start"
    /\ lines = <<>>
    /\ output = <<>>
    /\ content = <<>>
    /\ i = 0
    /\ applied = <<>>
    /\ origin = <<>>
    /\ run = 1
    /\ first = <<>>

Init == Start(InputLines)

\* with open('src/client.rs', 'r') as f: lines = f.readlines(); output = []; i = 0
ReadLines ==
    /\ script = "refactor"
    /\ pc = "start"
    /\ Decodable(file)
    /\ lines' = ReadLinesOf(file)
    /\ output' = <<>>
    /\ i' = 0
    /\ applied' = <<>>
    /\ origin' = <<>>
    /\ pc' = "scan"
    /\ UNCHANGED <<file, orig, script, run, first, content>>

Scanning == script = "refactor" /\ pc = "scan" /\ i < Len(lines)

\* a branch that ends in `continue`: the scan moves to next, text is inserted
Apply(rule, next, text) ==
    /\ i' = next
    /\ output' = output \o text
    /\ applied' = Append(applied, <<rule, i, next>>)
    /\ origin' = origin \o [k \in 1..Len(text) |-> 0]
    /\ UNCHANGED <<file, orig, script, pc, lines, run, first, content>>

\* the eight branches `i += 1; continue`
SkipLine ==
    /\ Scanning
    /\ Rule(lines, i) \in SingleLineRules
    /\ Apply(Rule(lines, i), i + 1, <<>>)

SkipMacroDefinition ==
    /\ Scanning
    /\ Rule(lines, i) = "macro_definition"
    /\ Apply("macro_definition", MacroNext(lines, i), <<>>)

ReplaceDebugComment ==
    /\ Scanning
    /\ Rule(lines, i) = "debug_comment"
    /\ Apply("debug_comment", i + 1, <<T_CustomDebug>>)

SkipWithInterceptor ==
    /\ Scanning
    /\ Rule(lines, i) = "with_interceptor"
    /\ Apply("with_interceptor", WithInterceptorNext(lines, i), <<>>)

SkipAccessor ==
    /\ Scanning
    /\ Rule(lines, i) = "interceptors_accessor"
    /\ Apply("interceptors_accessor", AccessorNext(lines, i), <<>>)

SkipHelperMethods ==
    /\ Scanning
    /\ Rule(lines, i) = "helper_methods"
    /\ Apply("helper_methods", HelperMethodsNext(lines, i), <<>>)

SkipBeforeRequest ==
    /\ Scanning
    /\ Rule(lines, i) = "call_before_request"
    /\ Apply("call_before_request", BeforeRequestNext(lines, i), <<>>)

ReplaceHandleApiError ==
    /\ Scanning
    /\ Rule(lines, i) = "handle_api_error"
    /\ Apply("handle_api_error", HandleApiErrorNext(lines, i),
             <<HandleApiErrorText(At(lines, i))>>)

SkipAfterResponse ==
    /\ Scanning
    /\ Rule(lines, i) = "call_after_response"
    /\ Apply("call_after_response", AfterResponseNext(lines, i), <<>>)

\* a slip: output.append(line.strip())
Kept_Stripped(out, line) == Append(out, Strip(line))

\* output.append(line)
Kept(out, line) == Append(out, line)

\* output.append(line); i += 1
KeepLine ==
    /\ Scanning
    /\ Rule(lines, i) = "keep"
    /\ output' = Kept(output, At(lines, i))
    /\ origin' = Append(origin, i + 1)
    /\ i' = i + 1
    /\ UNCHANGED <<file, orig, script, pc, lines, applied, run, first, content>>

ScanStep ==
    \/ SkipLine
    \/ SkipMacroDefinition
    \/ ReplaceDebugComment
    \/ SkipWithInterceptor
    \/ SkipAccessor
    \/ SkipHelperMethods
    \/ SkipBeforeRequest
    \/ ReplaceHandleApiError
    \/ SkipAfterResponse
    \/ KeepLine

\* the loop is left; open('src/client.rs', 'w') truncates the file
OpenForWriting ==
    /\ script = "refactor"
    /\ pc = "scan"
    /\ i >= Len(lines)
    /\ file' = <<>>
    /\ pc' = "opened"
    /\ UNCHANGED <<orig, script, lines, output, i, applied, origin, run, first, content>>

\* f.writelines(output), and the file is closed
WriteLines ==
    /\ script = "refactor"
    /\ pc = "opened"
    /\ file' = Encode(WriteLinesOf(output))
    /\ pc' = "done"
    /\ UNCHANGED <<orig, script, lines, output, i, applied, origin, run, first, content>>

Next == ReadLines \/ ScanStep \/ OpenForWriting \/ WriteLines

Spec == Init /\ [][Next]_vars

\* the first run has written the file; the script is run on it again
Rerun ==
    /\ pc = "done"
    /\ run < MaxRuns
    /\ run' = run + 1
    /\ first' = IF run = 1 THEN file ELSE first
    /\ pc' = "start"
    /\ UNCHANGED <<file, orig, script, lines, output, i, applied, origin, content>>

SpecRerun == Init /\ [][Next \/ Rerun]_vars

\* the loop and the write-back are straight-line code: a run goes on until it
\* ends; every one-line file, every short file over the lines of the
\* multi-line constructs and the fragments are run to their end
InitFair ==
    Start(Files(CoreLines, MaxLen) \cup {<<a>> : a \in AllLines} \cup Scenarios)

SpecFair == InitFair /\ [][Next]_vars /\ WF_vars(Next)

----------------------------------------------------------------------------
(* Python's re over texts.  A pattern is a sequence of elements;           *)
(* MatchEnd gives the position after the match that re finds first at a    *)
(* position (greedy elements longest first, lazy ones shortest first), 0   *)
(* when there is none.                                                     *)

Lit(s)     == [t |-> "lit",   s |-> s,    c |-> ""]   \* literal text
NotPlus(c) == [t |-> "not+",  s |-> <<>>, c |-> c]    \* [^c]+
WsStar     == [t |-> "ws*",   s |-> <<>>, c |-> ""]   \* \s*
WsPlus     == [t |-> "ws+",   s |-> <<>>, c |-> ""]   \* \s+
Lazy       == [t |-> "lazy",  s |-> <<>>, c |-> ""]   \* .*? under re.DOTALL
Bol        == [t |-> "bol",   s |-> <<>>, c |-> ""]   \* ^ under re.MULTILINE
Opt(c)     == [t |-> "opt",   s |-> <<>>, c |-> c]    \* c?
Wb         == [t |-> "wb",    s |-> <<>>, c |-> ""]   \* \b

\* the ASCII characters \w matches
WordChars ==
    LET w == Chars("abcdefghijklmnopqrstuvwxyzABCDEFGHIJKLMNOPQRSTUVWXYZ0123456789_")
    IN  {w[k] : k \in 1..Len(w)}

\* the code points above U+007F that \w matches, as ranges <<first, last>>
WordRanges ==
    {<<170, 170>>, <<178, 179>>, <<181, 181>>, <<185, 186>>, <<188, 190>>,
     <<192, 214>>, <<216, 246>>, <<248, 705>>, <<710, 721>>, <<736, 740>>,
     <<748, 748>>, <<750, 750>>, <<880, 884>>, <<886, 887>>, <<890, 893>>,
     <<895, 895>>, <<902, 902>>, <<904, 906>>, <<908, 908>>, <<910, 929>>,
     <<931, 1013>>, <<1015, 1153>>, <<1162, 1327>>, <<1329, 1366>>, <<1369, 1369>>,
     <<1376, 1416>>, <<1488, 1514>>, <<1519, 1522>>, <<1568, 1610>>, <<1632, 1641>>,
     <<1646, 1647>>, <<1649, 1747>>, <<1749, 1749>>, <<1765, 1766>>, <<1774, 1788>>,
     <<1791, 1791>>, <<1808, 1808>>, <<1810, 1839>>, <<1869, 1957>>, <<1969, 1969>>,
     <<1984, 2026>>, <<2036, 2037>>, <<2042, 2042>>, <<2048, 2069>>, <<2074, 2074>>,
     <<2084, 2084>>, <<2088, 2088>>, <<2112, 2136>>, <<2144, 2154>>, <<2160, 2183>>,
     <<2185, 2190>>, <<2208, 2249>>, <<2308, 2361>>, <<2365, 2365>>, <<2384, 2384>>,
     <<2392, 2401>>, <<2406, 2415>>, <<2417, 2432>>, <<2437, 2444>>, <<2447, 2448>>,
     <<2451, 2472>>, <<2474, 2480>>, <<2482, 2482>>, <<2486, 2489>>, <<2493, 2493>>,
     <<2510, 2510>>, <<2524, 2525>>, <<2527, 2529>>, <<2534, 2545>>, <<2548, 2553>>,
     <<2556, 2556>>, <<2565, 2570>>, <<2575, 2576>>, <<2579, 2600>>, <<2602, 2608>>,
     <<2610, 2611>>, <<2613, 2614>>, <<2616, 2617>>, <<2649, 2652>>, <<2654, 2654>>,
     <<2662, 2671>>, <<2674, 2676>>, <<2693, 2701>>, <<2703, 2705>>, <<2707, 2728>>,
     <<2730, 2736>>, <<2738, 2739>>, <<2741, 2745>>, <<2749, 2749>>, <<2768, 2768>>,
     <<2784, 2785>>, <<2790, 2799>>, <<2809, 2809>>, <<2821, 2828>>, <<2831, 2832>>,
     <<2835, 2856>>, <<2858, 2864>>, <<2866, 2867>>, <<2869, 2873>>, <<2877, 2877>>,
     <<2908, 2909>>, <<2911, 2913>>, <<2918, 2927>>, <<2929, 2935>>, <<2947, 2947>>,
     <<2949, 2954>>, <<2958, 2960>>, <<2962, 2965>>, <<2969, 2970>>, <<2972, 2972>>,
     <<2974, 2975>>, <<2979, 2980>>, <<2984, 2986>>, <<2990, 3001>>, <<3024, 3024>>,
     <<3046, 3058>>, <<3077, 3084>>, <<3086, 3088>>, <<3090, 3112>>, <<3114, 3129>>,
     <<3133, 3133>>, <<3160, 3162>>, <<3165, 3165>>, <<3168, 3169>>, <<3174, 3183>>,
     <<3192, 3198>>, <<3200, 3200>>, <<3205, 3212>>, <<3214, 3216>>, <<3218, 3240>>,
     <<3242, 3251>>, <<3253, 3257>>, <<3261, 3261>>, <<3293, 3294>>, <<3296, 3297>>,
     <<3302, 3311>>, <<3313, 3314>>, <<3332, 3340>>, <<3342, 3344>>, <<3346, 3386>>,
     <<3389, 3389>>, <<3406, 3406>>, <<3412, 3414>>, <<3416, 3425>>, <<3430, 3448>>,
     <<3450, 3455>>, <<3461, 3478>>, <<3482, 3505>>, <<3507, 3515>>, <<3517, 3517>>,
     <<3520, 3526>>, <<3558, 3567>>, <<3585, 3632>>, <<3634, 3635>>, <<3648, 3654>>,
     <<3664, 3673>>, <<3713, 3714>>, <<3716, 3716>>, <<3718, 3722>>, <<3724, 3747>>,
     <<3749, 3749>>, <<3751, 3760>>, <<3762, 3763>>, <<3773, 3773>>, <<3776, 3780>>,
     <<3782, 3782>>, <<3792, 3801>>, <<3804, 3807>>, <<3840, 3840>>, <<3872, 3891>>,
     <<3904, 3911>>, <<3913, 3948>>, <<3976, 3980>>, <<4096, 4138>>, <<4159, 4169>>,
     <<4176, 4181>>, <<4186, 4189>>, <<4193, 4193>>, <<4197, 4198>>, <<4206, 4208>>,
     <<4213, 4225>>, <<4238, 4238>>, <<4240, 4249>>, <<4256, 4293>>, <<4295, 4295>>,
     <<4301, 4301>>, <<4304, 4346>>, <<4348, 4680>>, <<4682, 4685>>, <<4688, 4694>>,
     <<4696, 4696>>, <<4698, 4701>>, <<4704, 4744>>, <<4746, 4749>>, <<4752, 4784>>,
     <<4786, 4789>>, <<4792, 4798>>, <<4800, 4800>>, <<4802, 4805>>, <<4808, 4822>>,
     <<4824, 4880>>, <<4882, 4885>>, <<4888, 4954>>, <<4969, 4988>>, <<4992, 5007>>,
     <<5024, 5109>>, <<5112, 5117>>, <<5121, 5740>>, <<5743, 5759>>, <<5761, 5786>>,
     <<5792, 5866>>, <<5870, 5880>>, <<5888, 5905>>, <<5919, 5937>>, <<5952, 5969>>,
     <<5984, 5996>>, <<5998, 6000>>, <<6016, 6067>>, <<6103, 6103>>, <<6108, 6108>>,
     <<6112, 6121>>, <<6128, 6137>>, <<6160, 6169>>, <<6176, 6264>>, <<6272, 6276>>,
     <<6279, 6312>>, <<6314, 6314>>, <<6320, 6389>>, <<6400, 6430>>, <<6470, 6509>>,
     <<6512, 6516>>, <<6528, 6571>>, <<6576, 6601>>, <<6608, 6618>>, <<6656, 6678>>,
     <<6688, 6740>>, <<6784, 6793>>, <<6800, 6809>>, <<6823, 6823>>, <<6917, 6963>>,
     <<6981, 6988>>, <<6992, 7001>>, <<7043, 7072>>, <<7086, 7141>>, <<7168, 7203>>,
     <<7232, 7241>>, <<7245, 7293>>, <<7296, 7304>>, <<7312, 7354>>, <<7357, 7359>>,
     <<7401, 7404>>, <<7406, 7411>>, <<7413, 7414>>, <<7418, 7418>>, <<7424, 7615>>,
     <<7680, 7957>>, <<7960, 7965>>, <<7968, 8005>>, <<8008, 8013>>, <<8016, 8023>>,
     <<8025, 8025>>, <<8027, 8027>>, <<8029, 8029>>, <<8031, 8061>>, <<8064, 8116>>,
     <<8118, 8124>>, <<8126, 8126>>, <<8130, 8132>>, <<8134, 8140>>, <<8144, 8147>>,
     <<8150, 8155>>, <<8160, 8172>>, <<8178, 8180>>, <<8182, 8188>>, <<8304, 8305>>,
     <<8308, 8313>>, <<8319, 8329>>, <<8336, 8348>>, <<8450, 8450>>, <<8455, 8455>>,
     <<8458, 8467>>, <<8469, 8469>>, <<8473, 8477>>, <<8484, 8484>>, <<8486, 8486>>,
     <<8488, 8488>>, <<8490, 8493>>, <<8495, 8505>>, <<8508, 8511>>, <<8517, 8521>>,
     <<8526, 8526>>, <<8528, 8585>>, <<9312, 9371>>, <<9450, 9471>>,
     <<10102, 10131>>, <<11264, 11492>>, <<11499, 11502>>, <<11506, 11507>>,
     <<11517, 11517>>, <<11520, 11557>>, <<11559, 11559>>, <<11565, 11565>>,
     <<11568, 11623>>, <<11631, 11631>>, <<11648, 11670>>, <<11680, 11686>>,
     <<11688, 11694>>, <<11696, 11702>>, <<11704, 11710>>, <<11712, 11718>>,
     <<11720, 11726>>, <<11728, 11734>>, <<11736, 11742>>, <<11823, 11823>>,
     <<12293, 12295>>, <<12321, 12329>>, <<12337, 12341>>, <<12344, 12348>>,
     <<12353, 12438>>, <<12445, 12447>>, <<12449, 12538>>, <<12540, 12543>>,
     <<12549, 12591>>, <<12593, 12686>>, <<12690, 12693>>, <<12704, 12735>>,
     <<12784, 12799>>, <<12832, 12841>>, <<12872, 12879>>, <<12881, 12895>>,
     <<12928, 12937>>, <<12977, 12991>>, <<13312, 19903>>, <<19968, 42124>>,
     <<42192, 42237>>, <<42240, 42508>>, <<42512, 42539>>, <<42560, 42606>>,
     <<42623, 42653>>, <<42656, 42735>>, <<42775, 42783>>, <<42786, 42888>>,
     <<42891, 42954>>, <<42960, 42961>>, <<42963, 42963>>, <<42965, 42969>>,
     <<42994, 43009>>, <<43011, 43013>>, <<43015, 43018>>, <<43020, 43042>>,
     <<43056, 43061>>, <<43072, 43123>>, <<43138, 43187>>, <<43216, 43225>>,
     <<43250, 43255>>, <<43259, 43259>>, <<43261, 43262>>, <<43264, 43301>>,
     <<43312, 43334>>, <<43360, 43388>>, <<43396, 43442>>, <<43471, 43481>>,
     <<43488, 43492>>, <<43494, 43518>>, <<43520, 43560>>, <<43584, 43586>>,
     <<43588, 43595>>, <<43600, 43609>>, <<43616, 43638>>, <<43642, 43642>>,
     <<43646, 43695>>, <<43697, 43697>>, <<43701, 43702>>, <<43705, 43709>>,
     <<43712, 43712>>, <<43714, 43714>>, <<43739, 43741>>, <<43744, 43754>>,
     <<43762, 43764>>, <<43777, 43782>>, <<43785, 43790>>, <<43793, 43798>>,
     <<43808, 43814>>, <<43816, 43822>>, <<43824, 43866>>, <<43868, 43881>>,
     <<43888, 44002>>, <<44016, 44025>>, <<44032, 55203>>, <<55216, 55238>>,
     <<55243, 55291>>, <<63744, 64109>>, <<64112, 64217>>, <<64256, 64262>>,
     <<64275, 64279>>, <<64285, 64285>>, <<64287, 64296>>, <<64298, 64310>>,
     <<64312, 64316>>, <<64318, 64318>>, <<64320, 64321>>, <<64323, 64324>>,
     <<64326, 64433>>, <<64467, 64829>>, <<64848, 64911>>, <<64914, 64967>>,
     <<65008, 65019>>, <<65136, 65140>>, <<65142, 65276>>, <<65296, 65305>>,
     <<65313, 65338>>, <<65345, 65370>>, <<65382, 65470>>, <<65474, 65479>>,
     <<65482, 65487>>, <<65490, 65495>>, <<65498, 65500>>, <<65536, 65547>>,
     <<65549, 65574>>, <<65576, 65594>>, <<65596, 65597>>, <<65599, 65613>>,
     <<65616, 65629>>, <<65664, 65786>>, <<65799, 65843>>, <<65856, 65912>>,
     <<65930, 65931>>, <<66176, 66204>>, <<66208, 66256>>, <<66273, 66299>>,
     <<66304, 66339>>, <<66349, 66378>>, <<66384, 66421>>, <<66432, 66461>>,
     <<66464, 66499>>, <<66504, 66511>>, <<66513, 66517>>, <<66560, 66717>>,
     <<66720, 66729>>, <<66736, 66771>>, <<66776, 66811>>, <<66816, 66855>>,
     <<66864, 66915>>, <<66928, 66938>>, <<66940, 66954>>, <<66956, 66962>>,
     <<66964, 66965>>, <<66967, 66977>>, <<66979, 66993>>, <<66995, 67001>>,
     <<67003, 67004>>, <<67072, 67382>>, <<67392, 67413>>, <<67424, 67431>>,
     <<67456, 67461>>, <<67463, 67504>>, <<67506, 67514>>, <<67584, 67589>>,
     <<67592, 67592>>, <<67594, 67637>>, <<67639, 67640>>, <<67644, 67644>>,
     <<67647, 67669>>, <<67672, 67702>>, <<67705, 67742>>, <<67751, 67759>>,
     <<67808, 67826>>, <<67828, 67829>>, <<67835, 67867>>, <<67872, 67897>>,
     <<67968, 68023>>, <<68028, 68047>>, <<68050, 68096>>, <<68112, 68115>>,
     <<68117, 68119>>, <<68121, 68149>>, <<68160, 68168>>, <<68192, 68222>>,
     <<68224, 68255>>, <<68288, 68295>>, <<68297, 68324>>, <<68331, 68335>>,
     <<68352, 68405>>, <<68416, 68437>>, <<68440, 68466>>, <<68472, 68497>>,
     <<68521, 68527>>, <<68608, 68680>>, <<68736, 68786>>, <<68800, 68850>>,
     <<68858, 68899>>, <<68912, 68921>>, <<69216, 69246>>, <<69248, 69289>>,
     <<69296, 69297>>, <<69376, 69415>>, <<69424, 69445>>, <<69457, 69460>>,
     <<69488, 69505>>, <<69552, 69579>>, <<69600, 69622>>, <<69635, 69687>>,
     <<69714, 69743>>, <<69745, 69746>>, <<69749, 69749>>, <<69763, 69807>>,
     <<69840, 69864>>, <<69872, 69881>>, <<69891, 69926>>, <<69942, 69951>>,
     <<69956, 69956>>, <<69959, 69959>>, <<69968, 70002>>, <<70006, 70006>>,
     <<70019, 70066>>, <<70081, 70084>>, <<70096, 70106>>, <<70108, 70108>>,
     <<70113, 70132>>, <<70144, 70161>>, <<70163, 70187>>, <<70272, 70278>>,
     <<70280, 70280>>, <<70282, 70285>>, <<70287, 70301>>, <<70303, 70312>>,
     <<70320, 70366>>, <<70384, 70393>>, <<70405, 70412>>, <<70415, 70416>>,
     <<70419, 70440>>, <<70442, 70448>>, <<70450, 70451>>, <<70453, 70457>>,
     <<70461, 70461>>, <<70480, 70480>>, <<70493, 70497>>, <<70656, 70708>>,
     <<70727, 70730>>, <<70736, 70745>>, <<70751, 70753>>, <<70784, 70831>>,
     <<70852, 70853>>, <<70855, 70855>>, <<70864, 70873>>, <<71040, 71086>>,
     <<71128, 71131>>, <<71168, 71215>>, <<71236, 71236>>, <<71248, 71257>>,
     <<71296, 71338>>, <<71352, 71352>>, <<71360, 71369>>, <<71424, 71450>>,
     <<71472, 71483>>, <<71488, 71494>>, <<71680, 71723>>, <<71840, 71922>>,
     <<71935, 71942>>, <<71945, 71945>>, <<71948, 71955>>, <<71957, 71958>>,
     <<71960, 71983>>, <<71999, 71999>>, <<72001, 72001>>, <<72016, 72025>>,
     <<72096, 72103>>, <<72106, 72144>>, <<72161, 72161>>, <<72163, 72163>>,
     <<72192, 72192>>, <<72203, 72242>>, <<72250, 72250>>, <<72272, 72272>>,
     <<72284, 72329>>, <<72349, 72349>>, <<72368, 72440>>, <<72704, 72712>>,
     <<72714, 72750>>, <<72768, 72768>>, <<72784, 72812>>, <<72818, 72847>>,
     <<72960, 72966>>, <<72968, 72969>>, <<72971, 73008>>, <<73030, 73030>>,
     <<73040, 73049>>, <<73056, 73061>>, <<73063, 73064>>, <<73066, 73097>>,
     <<73112, 73112>>, <<73120, 73129>>, <<73440, 73458>>, <<73648, 73648>>,
     <<73664, 73684>>, <<73728, 74649>>, <<74752, 74862>>, <<74880, 75075>>,
     <<77712, 77808>>, <<77824, 78894>>, <<82944, 83526>>, <<92160, 92728>>,
     <<92736, 92766>>, <<92768, 92777>>, <<92784, 92862>>, <<92864, 92873>>,
     <<92880, 92909>>, <<92928, 92975>>, <<92992, 92995>>, <<93008, 93017>>,
     <<93019, 93025>>, <<93027, 93047>>, <<93053, 93071>>, <<93760, 93846>>,
     <<93952, 94026>>, <<94032, 94032>>, <<94099, 94111>>, <<94176, 94177>>,
     <<94179, 94179>>, <<94208, 100343>>, <<100352, 101589>>, <<101632, 101640>>,
     <<110576, 110579>>, <<110581, 110587>>, <<110589, 110590>>, <<110592, 110882>>,
     <<110928, 110930>>, <<110948, 110951>>, <<110960, 111355>>, <<113664, 113770>>,
     <<113776, 113788>>, <<113792, 113800>>, <<113808, 113817>>, <<119520, 119539>>,
     <<119648, 119672>>, <<119808, 119892>>, <<119894, 119964>>, <<119966, 119967>>,
     <<119970, 119970>>, <<119973, 119974>>, <<119977, 119980>>, <<119982, 119993>>,
     <<119995, 119995>>, <<119997, 120003>>, <<120005, 120069>>, <<120071, 120074>>,
     <<120077, 120084>>, <<120086, 120092>>, <<120094, 120121>>, <<120123, 120126>>,
     <<120128, 120132>>, <<120134, 120134>>, <<120138, 120144>>, <<120146, 120485>>,
     <<120488, 120512>>, <<120514, 120538>>, <<120540, 120570>>, <<120572, 120596>>,
     <<120598, 120628>>, <<120630, 120654>>, <<120656, 120686>>, <<120688, 120712>>,
     <<120714, 120744>>, <<120746, 120770>>, <<120772, 120779>>, <<120782, 120831>>,
     <<122624, 122654>>, <<123136, 123180>>, <<123191, 123197>>, <<123200, 123209>>,
     <<123214, 123214>>, <<123536, 123565>>, <<123584, 123627>>, <<123632, 123641>>,
     <<124896, 124902>>, <<124904, 124907>>, <<124909, 124910>>, <<124912, 124926>>,
     <<124928, 125124>>, <<125127, 125135>>, <<125184, 125251>>, <<125259, 125259>>,
     <<125264, 125273>>, <<126065, 126123>>, <<126125, 126127>>, <<126129, 126132>>,
     <<126209, 126253>>, <<126255, 126269>>, <<126464, 126467>>, <<126469, 126495>>,
     <<126497, 126498>>, <<126500, 126500>>, <<126503, 126503>>, <<126505, 126514>>,
     <<126516, 126519>>, <<126521, 126521>>, <<126523, 126523>>, <<126530, 126530>>,
     <<126535, 126535>>, <<126537, 126537>>, <<126539, 126539>>, <<126541, 126543>>,
     <<126545, 126546>>, <<126548, 126548>>, <<126551, 126551>>, <<126553, 126553>>,
     <<126555, 126555>>, <<126557, 126557>>, <<126559, 126559>>, <<126561, 126562>>,
     <<126564, 126564>>, <<126567, 126570>>, <<126572, 126578>>, <<126580, 126583>>,
     <<126585, 126588>>, <<126590, 126590>>, <<126592, 126601>>, <<126603, 126619>>,
     <<126625, 126627>>, <<126629, 126633>>, <<126635, 126651>>, <<127232, 127244>>,
     <<130032, 130041>>, <<131072, 173791>>, <<173824, 177976>>, <<177984, 178205>>,
     <<178208, 183969>>, <<183984, 191456>>, <<194560, 195101>>, <<196608, 201546>>}

IsWord(c) ==
    IF Len(c) <= 4 THEN c \in WordChars
    ELSE \E cp \in {CodePoint(c)} : \E r \in WordRanges : r[1] <= cp /\ cp <= r[2]

\* \b at pos: of the characters before and at pos, one is a word character
\* and the other is not, or is not there
WordBoundary(s, pos) ==
    (pos > 1 /\ IsWord(s[pos - 1])) # (pos <= Len(s) /\ IsWord(s[pos]))

\* length of the longest run of characters from pos that are not c
RunNot(s, pos, c) ==
    LET stops == {k \in pos..Len(s) : s[k] = c}
    IN  IF stops = {} THEN Len(s) - pos + 1
        ELSE (CHOOSE k \in stops : \A j \in stops : k <= j) - pos

\* length of the longest run of blanks from pos
RunWs(s, pos) ==
    LET stops == {k \in pos..Len(s) : ~IsBlank(s[k])}
    IN  IF stops = {} THEN Len(s) - pos + 1
        ELSE (CHOOSE k \in stops : \A j \in stops : k <= j) - pos

RECURSIVE MatchEnd(_, _, _, _)
MatchEnd(pat, n, s, pos) ==
    IF n > Len(pat) THEN pos
    ELSE
    LET e == pat[n]
        \* the repetition counts m after which the rest of the pattern matches
        Ok(lo, hi) == {m \in lo..hi : MatchEnd(pat, n + 1, s, pos + m) # 0}
    IN
    CASE e.t = "lit" ->
           IF /\ pos + Len(e.s) - 1 <= Len(s)
              /\ s[pos] = e.s[1]
              /\ SubSeq(s, pos, pos + Len(e.s) - 1) = e.s
           THEN MatchEnd(pat, n + 1, s, pos + Len(e.s))
           ELSE 0
      [] e.t = "not+" ->
           IF Ok(1, RunNot(s, pos, e.c)) = {} THEN 0
           ELSE MatchEnd(pat, n + 1, s, pos + Greatest(Ok(1, RunNot(s, pos, e.c))))
      [] e.t = "ws*" ->
           IF Ok(0, RunWs(s, pos)) = {} THEN 0
           ELSE MatchEnd(pat, n + 1, s, pos + Greatest(Ok(0, RunWs(s, pos))))
      [] e.t = "ws+" ->
           IF Ok(1, RunWs(s, pos)) = {} THEN 0
           ELSE MatchEnd(pat, n + 1, s, pos + Greatest(Ok(1, RunWs(s, pos))))
      [] e.t = "lazy" ->
           IF Ok(0, Len(s) - pos + 1) = {} THEN 0
           ELSE MatchEnd(pat, n + 1, s, pos + Smallest(Ok(0, Len(s) - pos + 1)))
      [] e.t = "bol" ->
           IF pos = 1 \/ s[pos - 1] = NL THEN MatchEnd(pat, n + 1, s, pos) ELSE 0
      [] e.t = "opt" ->
           IF pos <= Len(s) /\ s[pos] = e.c /\ MatchEnd(pat, n + 1, s, pos + 1) # 0
           THEN MatchEnd(pat, n + 1, s, pos + 1)
           ELSE MatchEnd(pat, n + 1, s, pos)
      [] e.t = "wb" ->
           IF WordBoundary(s, pos) THEN MatchEnd(pat, n + 1, s, pos) ELSE 0

\* the alternatives a|b|c are tried in order
RECURSIVE AltEnd(_, _, _, _)
AltEnd(alts, a, s, pos) ==
    IF a > Len(alts) THEN 0
    ELSE IF MatchEnd(alts[a], 1, s, pos) # 0 THEN MatchEnd(alts[a], 1, s, pos)
    ELSE AltEnd(alts, a + 1, s, pos)

\* re.sub(alts, repl, s): the matches are found left to right and do not
\* overlap; with keep, repl is r'\1' + text and group 1 is a leading (\s+)
RECURSIVE SubFrom(_, _, _, _, _)
SubFrom(alts, text, keep, s, pos) ==
    LET starts == {p \in pos..Len(s) : AltEnd(alts, 1, s, p) > p}
    IN  IF starts = {} THEN SubSeq(s, pos, Len(s))
        ELSE LET p == Smallest(starts)
             IN  SubSeq(s, pos, p - 1)
                     \o (IF keep THEN SubSeq(s, p, p + RunWs(s, p) - 1) ELSE <<>>)
                     \o text
                     \o SubFrom(alts, text, keep, s, AltEnd(alts, 1, s, p))

Sub(alts, text, s) == SubFrom(alts, text, FALSE, s, 1)
SubKeepingGroup(alts, text, s) == SubFrom(alts, text, TRUE, s, 1)

----------------------------------------------------------------------------
(* fix_client(): four substitutions on the whole text.                     *)

\* r'        self\.call_before_request\([^)]+\)\s*\.await\?;\n' -> ''
FixBeforeRequest(text) ==
    Sub(<< <<Lit(Chars("        self.call_before_request(")), NotPlus(")"),
             Lit(Chars(")")), WsStar, Lit(Chars(".await?;\n"))>> >>,
        <<>>, text)

\* r'(\s+)self\.handle_api_error\(e,\s*[^)]+\)' -> r'\1map_api_error(e)'
FixHandleApiError(text) ==
    SubKeepingGroup(
        << <<WsPlus, Lit(Chars("self.handle_api_error(e,")), WsStar,
             NotPlus(")"), Lit(Chars(")"))>> >>,
        T_MapApiError, text)

\* r'        self\.call_after_response\([^)]+\)\s*\.await;\n' -> ''
FixAfterResponse(text) ==
    Sub(<< <<Lit(Chars("        self.call_after_response(")), NotPlus(")"),
             Lit(Chars(")")), WsStar, Lit(Chars(".await;\n"))>> >>,
        <<>>, text)

\* r'&mut metadata|&metadata|\bmetadata\b,?\s*' -> ''
FixMetadata(text) ==
    Sub(<< <<Lit(Chars("&mut metadata"))>>,
           <<Lit(Chars("&metadata"))>>,
           <<Wb, Lit(Chars("metadata")), Wb, Opt(","), WsStar>> >>,
        <<>>, text)

FixClient(text) ==
    FixMetadata(FixAfterResponse(FixHandleApiError(FixBeforeRequest(text))))

----------------------------------------------------------------------------
(* remove_interceptors(): sixteen substitutions on the whole text.         *)

\* 1. r'use crate::interceptor::\{[^}]+\};\n' -> ''
RemoveImports(text) ==
    Sub(<< <<Lit(P_UseInterceptor \o Chars("::{")), NotPlus("}"),
             Lit(Chars("};\n"))>> >>,
        <<>>, text)

\* 2. r'// Allow this lint.*?\n#!\[allow\(clippy::too_many_arguments\)\]\n\n' -> ''
RemoveLintAllow(text) ==
    Sub(<< <<Lit(Chars("// Allow this lint")), Lazy,
             Lit(Chars("\n#![allow(clippy::too_many_arguments)]\n\n"))>> >>,
        <<>>, text)

\* 3. r'use tokio::sync::RwLock;\n' -> ''
RemoveRwLock(text) ==
    Sub(<< <<Lit(P_UseRwLock \o Chars(";\n"))>> >>, <<>>, text)

\* 4. r'// Helper macro to generate interceptor helper methods.*?^}\n' -> ''
RemoveMacroDefinition(text) ==
    Sub(<< <<Lit(P_HelperMacro \o Chars(" interceptor helper methods")), Lazy, Bol,
             Lit(Chars("}\n"))>> >>,
        <<>>, text)

\* 5. r'impl_interceptor_helpers!\([^)]+\);\n' -> ''
RemoveMacroInvocations(text) ==
    Sub(<< <<Lit(Chars("impl_interceptor_helpers!(")), NotPlus(")"),
             Lit(Chars(");\n"))>> >>,
        <<>>, text)

\* 6. r'    interceptors: Arc<RwLock<InterceptorChain>>,' -> ''
RemoveField(text) ==
    Sub(<< <<Lit(P_Field)>> >>, <<>>, text)

\* 7. r'// Custom Debug implementation since InterceptorChain doesn\'t implement Debug'
\*    -> '// Custom Debug implementation'
RewriteDebugComment(text) ==
    Sub(<< <<Lit(Chars("// Custom Debug implementation since InterceptorChain doesn't implement Debug"))>> >>,
        Chars("// Custom Debug implementation"), text)

\* 8. r'            \.field\("interceptors", &"<InterceptorChain>"\)\n' -> ''
RemoveDebugField(text) ==
    Sub(<< <<Lit(Chars("            .field(\"interceptors\", &\"<InterceptorChain>\")\n"))>> >>,
        <<>>, text)

\* 9. r'            interceptors: Arc::new\(RwLock::new\(InterceptorChain::new\(\)\)\),\n'
\*    -> ''
RemoveInitField(text) ==
    Sub(<< <<Lit(Chars("            interceptors: Arc::new(RwLock::new(InterceptorChain::new())),\n"))>> >>,
        <<>>, text)

\* 10. r'    /// Add an interceptor to the client\..*?^    \}\n' -> ''
RemoveWithInterceptor(text) ==
    Sub(<< <<Lit(P_AddInterceptor \o Chars(" to the client.")), Lazy, Bol,
             Lit(Chars("    }\n"))>> >>,
        <<>>, text)

\* 11. r'    /// Get a reference to the interceptor chain\..*?^    \}\n' -> ''
RemoveAccessor(text) ==
    Sub(<< <<Lit(Chars("    /// Get a reference to the interceptor chain.")), Lazy, Bol,
             Lit(Chars("    }\n"))>> >>,
        <<>>, text)

\* 12. r'// Interceptor helper methods\nimpl Client \{.*?\n\}\n' -> ''
RemoveHelperMethods(text) ==
    Sub(<< <<Lit(P_HelperMethods \o Chars("\nimpl Client {")), Lazy,
             Lit(Chars("\n}\n"))>> >>,
        <<>>, text)

\* 13. r'\n        let mut metadata = HashMap::new\(\);\n' -> '\n'
RemoveMetadata(text) ==
    Sub(<< <<Lit(Chars("\n") \o P_MetaMut \o Chars("\n"))>> >>, Chars("\n"), text)

\* 14. r'        self\.call_before_request\([^)]+\)\.await\?;\n' -> ''
RemoveBeforeRequest(text) ==
    Sub(<< <<Lit(Chars("        self.call_before_request(")), NotPlus(")"),
             Lit(Chars(").await?;\n"))>> >>,
        <<>>, text)

\* 15. r'self\.handle_api_error\(e, [^)]+\)' -> 'map_api_error(e)'
RewriteHandleApiError(text) ==
    Sub(<< <<Lit(Chars("self.handle_api_error(e, ")), NotPlus(")"),
             Lit(Chars(")"))>> >>,
        T_MapApiError, text)

\* 16. r'        self\.call_after_response\([^)]+\)\.await;\n' -> ''
RemoveAfterResponse(text) ==
    Sub(<< <<Lit(Chars("        self.call_after_response(")), NotPlus(")"),
             Lit(Chars(").await;\n"))>> >>,
        <<>>, text)

RemoveInterceptors(text) ==
    RemoveAfterResponse(RewriteHandleApiError(RemoveBeforeRequest(RemoveMetadata(
    RemoveHelperMethods(RemoveAccessor(RemoveWithInterceptor(RemoveInitField(
    RemoveDebugField(RewriteDebugComment(RemoveField(RemoveMacroInvocations(
    RemoveMacroDefinition(RemoveRwLock(RemoveLintAllow(RemoveImports(text))))))))))))))))

----------------------------------------------------------------------------
(* The three scripts, with the write-back in its steps and its failure.    *)

Scripts == {"refactor", "fix_client", "remove_interceptors"}

\* files that are not UTF-8: a character cut after its first byte or bytes,
\* a byte that starts no character, and a surrogate
DamagedFiles ==
    {<<"\\xc2">>,
     Chars("    }\n") \o <<"\\xe2", "\\x80">>,
     Chars("a") \o <<"\\xa0">> \o Chars("\n"),
     <<"\\xed", "\\xa0", "\\x80">> \o Chars("\n")}

InitIO ==
    /\ \/ \E ls \in InputLines : file = Encode(WriteLinesOf(ls))
       \/ file \in DamagedFiles
    /\ orig = file
    /\ script \in Scripts
    /\ pc = "start"
    /\ lines = <<>>
    /\ output = <<>>
    /\ content = <<>>
    /\ i = 0
    /\ applied = <<>>
    /\ origin = <<>>
    /\ run = 1
    /\ first = <<>>

\* with open('src/client.rs', 'r') as f: content = f.read()
ReadContent ==
    /\ script \in {"fix_client", "remove_interceptors"}
    /\ pc = "start"
    /\ Decodable(file)
    /\ content' = Translate(Decode(file))
    /\ pc' = "subs"
    /\ UNCHANGED <<file, orig, script, lines, output, i, applied, origin, run, first>>

\* fix_client(): the re.sub calls
FixClientSubs ==
    /\ script = "fix_client"
    /\ pc = "subs"
    /\ content' = FixClient(content)
    /\ pc' = "write"
    /\ UNCHANGED <<file, orig, script, lines, output, i, applied, origin, run, first>>

\* remove_interceptors(): the re.sub calls
RemoveInterceptorsSubs ==
    /\ script = "remove_interceptors"
    /\ pc = "subs"
    /\ content' = RemoveInterceptors(content)
    /\ pc' = "write"
    /\ UNCHANGED <<file, orig, script, lines, output, i, applied, origin, run, first>>

\* fix_client(): open('src/client.rs', 'w') truncates the file
FixClientOpen ==
    /\ script = "fix_client"
    /\ pc = "write"
    /\ file' = <<>>
    /\ pc' = "opened"
    /\ UNCHANGED <<orig, script, lines, output, content, i, applied, origin, run, first>>

\* fix_client(): f.write(content), and the file is closed
FixClientWrite ==
    /\ script = "fix_client"
    /\ pc = "opened"
    /\ file' = Encode(content)
    /\ pc' = "done"
    /\ UNCHANGED <<orig, script, lines, output, content, i, applied, origin, run, first>>

\* remove_interceptors(): open('src/client.rs', 'w') truncates the file
RemoveInterceptorsOpen ==
    /\ script = "remove_interceptors"
    /\ pc = "write"
    /\ file' = <<>>
    /\ pc' = "opened"
    /\ UNCHANGED <<orig, script, lines, output, content, i, applied, origin, run, first>>

\* remove_interceptors(): f.write(content), and the file is closed
RemoveInterceptorsWrite ==
    /\ script = "remove_interceptors"
    /\ pc = "opened"
    /\ file' = Encode(content)
    /\ pc' = "done"
    /\ UNCHANGED <<orig, script, lines, output, content, i, applied, origin, run, first>>

\* the text the script is about to write
Patched == IF script = "refactor" THEN WriteLinesOf(output) ELSE content

\* the write raises (the disk is full, the process is killed) after the file
\* was opened: what was flushed until then, a proper prefix of the bytes of
\* the text, stays
WriteFails ==
    /\ pc = "opened"
    /\ \E bytes \in {Encode(Patched)} : \E n \in 0..Len(bytes) :
           /\ (n < Len(bytes) \/ n = 0)
           /\ file' = SubSeq(bytes, 1, n)
    /\ pc' = "failed"
    /\ UNCHANGED <<orig, script, lines, output, content, i, applied, origin, run, first>>

\* f.readlines() or f.read() raises UnicodeDecodeError: the script ends with
\* the file as it was
ReadFails ==
    /\ pc = "start"
    /\ ~Decodable(file)
    /\ pc' = "failed"
    /\ UNCHANGED <<file, orig, script, lines, output, content, i, applied, origin,
                   run, first>>

NextIO ==
    \/ ReadLines \/ ScanStep \/ OpenForWriting \/ WriteLines
    \/ ReadContent \/ FixClientSubs \/ RemoveInterceptorsSubs
    \/ FixClientOpen \/ FixClientWrite
    \/ RemoveInterceptorsOpen \/ RemoveInterceptorsWrite
    \/ ReadFails \/ WriteFails

SpecIO == InitIO /\ [][NextIO]_vars

----------------------------------------------------------------------------
(* The audit trail and what the claims say about it.                       *)

RuleOf(a)  == a[1]
StartOf(a) == a[2]
NextOf(a)  == a[3]

\* the lines of the input a rule application consumed (0-based indices)
SpanLines(a) == {k \in StartOf(a)..(NextOf(a) - 1) : k < Len(lines)}

\* index of the last line of the input a rule application consumed
EndOf(a) == IF NextOf(a) < Len(lines) THEN NextOf(a) - 1 ELSE Len(lines) - 1

Spans == {applied[n] : n \in 1..Len(applied)}

RECURSIVE SumSpans(_)
SumSpans(n) == IF n = 0 THEN 0 ELSE Cardinality(SpanLines(applied[n])) + SumSpans(n - 1)

Inserted == {p \in 1..Len(origin) : origin[p] = 0}
Copies   == {p \in 1..Len(origin) : origin[p] # 0}

\* the scan loop of refactor() has been left
Terminated ==
    script = "refactor" /\ pc \in {"scan", "opened", "done"} /\ i >= Len(lines)

\* net '{' minus '}' of lines[a..b] (0-based, inclusive)
RECURSIVE Depth(_, _, _)
Depth(ls, a, b) ==
    IF b < a THEN 0
    ELSE Depth(ls, a, b - 1) + Count(At(ls, b), "{") - Count(At(ls, b), "}")

Opens(ls, a, b) == \E k \in a..b : Count(At(ls, k), "{") > 0

\* running depth never negative and zero at the end
Balanced(ls) ==
    /\ \A b \in 0..(Len(ls) - 1) : Depth(ls, 0, b) >= 0
    /\ Depth(ls, 0, Len(ls) - 1) = 0

\* lines j >= a on which the depth counted from line a is back at zero after
\* a '{' was seen
ClosingLines(ls, a) ==
    {j \in a..(Len(ls) - 1) : Opens(ls, a, j) /\ Depth(ls, a, j) = 0}

Least(S) == CHOOSE x \in S : \A y \in S : x <= y

----------------------------------------------------------------------------
(* C6: conservation.  When the scan loop of refactor() has ended, every    *)
(* line of the input is in exactly one applied span or is copied verbatim  *)
(* to the output, the copies keep the order of the input, and              *)
(* len(output) = len(input) - (lines in applied spans) + (inserted lines); *)
(* also when the scan index has run past the end of the buffer.            *)
Conservation ==
    Terminated =>
        /\ Len(origin) = Len(output)
        /\ \A k \in 0..(Len(lines) - 1) :
               Cardinality({n \in 1..Len(applied) : k \in SpanLines(applied[n])})
                 + Cardinality({p \in Copies : origin[p] = k + 1}) = 1
        /\ \A p \in Copies : output[p] = lines[origin[p]]
        /\ \A p, q \in Copies : p < q => origin[p] < origin[q]
        /\ Len(output) = Len(lines) - SumSpans(Len(applied)) + Cardinality(Inserted)

\* a finished scan that copied a line, inserted a line and ran past the end
\* of the buffer in the macro rule
ConservationWitness ==
    /\ Terminated
    /\ Copies # {}
    /\ Inserted # {}
    /\ \E a \in Spans : RuleOf(a) = "macro_definition" /\ NextOf(a) = Len(lines) + 2

(* C7: non-overlap and single forward pass.  No step of refactor() lowers  *)
(* the scan index; every rule application starts at the scan index, covers *)
(* at least its start line, and starts after the end of every span         *)
(* applied before it.                                                      *)
ForwardPass ==
    [][ /\ i' >= i
        /\ applied' # applied =>
             /\ applied' = Append(applied, applied'[Len(applied')])
             /\ LET a == applied'[Len(applied')] IN
                  /\ StartOf(a) = i
                  /\ StartOf(a) <= NextOf(a) - 1
                  /\ \A b \in Spans : NextOf(b) - 1 < StartOf(a)
                  /\ \A p \in Copies : origin[p] - 1 < StartOf(a)
      ]_vars

\* a finished run with three applied spans, one of several lines
ForwardPassWitness ==
    /\ pc = "done"
    /\ Len(applied) >= 3
    /\ \E a \in Spans : Cardinality(SpanLines(a)) >= 2

(* C9: termination.  Every iteration of the scan loop raises the index by  *)
(* at least one, and every run of refactor() reaches its end.              *)
Termination ==
    /\ [][(pc = "scan" /\ pc' = "scan") => i' >= i + 1]_vars
    /\ <>(pc = "done")

\* a finished run whose last rule found no terminator and left the index
\* past the end of the buffer
TerminationWitness ==
    /\ pc = "done"
    /\ i > Len(lines)
    /\ Len(applied) >= 1

----------------------------------------------------------------------------
(* C1: idempotence.  A second run of refactor() on the file the first run  *)
(* wrote applies no rule and writes the same file.                         *)
Idempotence ==
    (script = "refactor" /\ run = 2 /\ pc = "done") =>
        (applied = <<>> /\ file = first)

----------------------------------------------------------------------------
\* the rules that scan forward for the end of their construct
ScanningRules ==
    {"macro_definition", "with_interceptor", "interceptors_accessor",
     "helper_methods", "call_before_request", "call_after_response"}

\* a line at or after lines[k] ends the scan of the rule, as the code tests it
HasTerminator(rule, ls, k) ==
    CASE rule = "macro_definition" ->
           \E j \in k..(Len(ls) - 2) :
               Strip(At(ls, j)) = P_Close /\ Strip(At(ls, j + 1)) = P_Close
      [] rule = "with_interceptor" ->
           \E j \in k..(Len(ls) - 1) :
               /\ Strip(At(ls, j)) = P_Close
               /\ (j + 1 >= Len(ls) \/ ~StartsWith(Strip(At(ls, j + 1)), P_Comment))
      [] rule = "interceptors_accessor" ->
           \E j \in k..(Len(ls) - 1) : Strip(At(ls, j)) = P_Close
      [] rule = "helper_methods" ->
           \E j \in (k + 1)..(Len(ls) - 1) :
               Depth(ls, k + 1, j) = 0 /\ Strip(At(ls, j)) = P_Close
      [] rule = "call_before_request" ->
           \E j \in k..(Len(ls) - 1) : Contains(At(ls, j), P_AwaitQ)
      [] rule = "call_after_response" ->
           \E j \in k..(Len(ls) - 1) : Contains(At(ls, j), P_AwaitSemi)
      [] OTHER -> TRUE

(* C2: fail-closed.  When a scanning rule was applied at a start line with *)
(* no terminator below it, the run does not go on to write the file.       *)
FailClosed ==
    \A a \in Spans :
        (RuleOf(a) \in ScanningRules /\ ~HasTerminator(RuleOf(a), lines, StartOf(a)))
            => pc \notin {"opened", "done"}

----------------------------------------------------------------------------
\* where the call `self.handle_api_error(...)` starts and ends in a line
CallAt(line) ==
    Least({q \in 1..(Len(line) - Len(P_HandleApiError) + 1) :
               SubSeq(line, q, q + Len(P_HandleApiError) - 1) = P_HandleApiError})
ReceiverAt(line) ==
    IF EndsWith(SubSeq(line, 1, CallAt(line) - 1), Chars("self"))
    THEN CallAt(line) - 4 ELSE CallAt(line)
ArgsAt(line) == CallAt(line) + Len(P_HandleApiError)
ClosedOnLine(line) == \E j \in ArgsAt(line)..Len(line) : line[j] = ")"
CloseAt(line) == Least({j \in ArgsAt(line)..Len(line) : line[j] = ")"})

\* the line with its call expression replaced by map_api_error(e)
RewriteCall(line) ==
    SubSeq(line, 1, ReceiverAt(line) - 1) \o T_MapApiError
        \o SubSeq(line, CloseAt(line) + 1, Len(line))

S_EndToEndPatched ==
    <<L_UseLib, L_Fn, L_Let, L_Match, L_OkArm, RewriteCall(L_ErrArm), L_Close8,
      L_Result, L_Close4>>

(* C3: call-expression rewrite.  A handle_api_error call that closes on    *)
(* its line is a span of that one line, the line is emitted with only the  *)
(* call expression replaced, and the end-to-end input comes out with its   *)
(* two hook calls removed and its Err arm rewritten in place.              *)
CallRewrite ==
    /\ \A a \in Spans :
           (RuleOf(a) = "handle_api_error" /\ ClosedOnLine(At(lines, StartOf(a))))
               => NextOf(a) = StartOf(a) + 1
    /\ (/\ applied # <<>>
        /\ RuleOf(applied[Len(applied)]) = "handle_api_error"
        /\ i = NextOf(applied[Len(applied)])
        /\ ClosedOnLine(At(lines, StartOf(applied[Len(applied)]))))
           => output[Len(output)] = RewriteCall(At(lines, StartOf(applied[Len(applied)])))
    /\ (script = "refactor" /\ run = 1 /\ pc = "done"
            /\ orig = Encode(WriteLinesOf(S_EndToEnd)))
           => file = Encode(WriteLinesOf(S_EndToEndPatched))

----------------------------------------------------------------------------
(* C4: balanced-delimiter span.  The span of the helper-methods block ends *)
(* on the first line after the marker on which the brace depth, counted    *)
(* from the line after the marker, is back at zero.                        *)
BalancedSpan ==
    \A a \in Spans :
        (RuleOf(a) = "helper_methods" /\ ClosingLines(lines, StartOf(a) + 1) # {})
            => EndOf(a) = Least(ClosingLines(lines, StartOf(a) + 1))

----------------------------------------------------------------------------
BraceRules ==
    {"macro_definition", "with_interceptor", "interceptors_accessor",
     "helper_methods"}

\* balanced, every brace-delimited construct closes its own braces, and every
\* scanning rule finds its terminator
WellFormed(ls) ==
    /\ Balanced(ls)
    /\ \A k \in 0..(Len(ls) - 1) :
           /\ Rule(ls, k) \in BraceRules => ClosingLines(ls, k) # {}
           /\ Rule(ls, k) \in ScanningRules => HasTerminator(Rule(ls, k), ls, k)

(* C5: structural validity.  The output of refactor() on a well-formed     *)
(* input is brace-balanced.                                                *)
StructurePreserved ==
    (script = "refactor" /\ run = 1 /\ pc = "done" /\ WellFormed(ReadLinesOf(orig)))
        => Balanced(ReadLinesOf(file))

----------------------------------------------------------------------------
(* C10: with_interceptor span.  The span of the with_interceptor rule ends *)
(* on the first line at or after its start whose stripped text is '}'.     *)
WithInterceptorSpan ==
    \A a \in Spans :
        LET closes == {j \in StartOf(a)..(Len(lines) - 1) : Strip(At(lines, j)) = P_Close}
        IN  (RuleOf(a) = "with_interceptor" /\ closes # {}) => EndOf(a) = Least(closes)

----------------------------------------------------------------------------
(* C8: all-or-nothing output.  In every state of a run of any of the three *)
(* scripts the file holds the complete original text or the complete       *)
(* patched text, and after a failure it holds the original text.           *)
AllOrNothing ==
    /\ file = orig \/ (pc = "done" /\ file = Encode(Patched))
    /\ pc = "failed" => file = orig

====
